---- MODULE Spec2Model ----
(***************************************************************************)
(* Feature-interaction discovery over a fitted random forest               *)
(* (bjeffrey92/pbp_AMR_prediction): DecisionTree_ of                       *)
(* parse_random_forest.py and the testers of interrogate_rf.py.            *)
(*                                                                         *)
(* Spec        one decision tree: the constructor's explicit-stack loop    *)
(*             over the raw arrays of dt.tree_, then the two queries       *)
(*             get_feature_first_node_id and linked_features.              *)
(* SpecCtor    the constructor alone, with the fairness of a running loop. *)
(* SpecForest  a forest of constructed trees handed to                     *)
(*             paired_selection_frequency and split_asymmetry.             *)
(* SpecPairs   main's candidate pairs and simulate_random_interactions.    *)
(* SpecFit     fit_model's retry loop and save_output of fit_models.py.    *)
(*                                                                         *)
(* Node ids are 0-based as in the source: an array of length n is a        *)
(* function on 0..n-1.  p-values are exact rationals <<num, den>>.         *)
(***************************************************************************)
EXTENDS Integers, Sequences, FiniteSets, TLC

VARIABLES
    dt,                        \* dt.tree_: node_count, feature, children_left, children_right
    malformed,                 \* ghost: the arrays of dt are not those of a tree
    self,                      \* the DecisionTree_ under construction / constructed
    stack,                     \* the constructor's explicit stack (top = last)
    visited,                   \* ghost: the node ids popped so far, in order
    ret,                       \* the last query made on the tree and its outcome
    pc,                        \* Spec: "ctor" | "built" | "IndexError" | "called"
                               \* SpecForest: "main" | "psf" | "tasks" | "psf_returned"
                               \*             | "RayTaskError" | "ZeroDivisionError"
                               \*             | "sa_returned"
                               \* SpecPairs: also "sim" | "sim_loop" | "sim_returned"
                               \* SpecFit: "fit" | "fit_loop" | "fit_returned"
                               \*          | "Exception" | "NotImplementedError"
                               \*          | "save_loop" | "saved" | "FileNotFoundError"
    estimators,                \* model.estimators_: the arrays of every fitted tree
    multiple_test_correction,  \* the flag given to both testers
    trees,                     \* main: the DecisionTree_ of every estimator
    included_features,         \* main: the features used by any tree, ascending
    feature_pairs,             \* main: the candidate pairs (feature_combinations)
    linked_trees,              \* main: pair -> trees in which it is linked
    tree_features_df,          \* paired_selection_frequency: tree x feature table
    futures,                   \* paired_selection_frequency: one task per pair
    fisher_test_p_values,      \* ray.get(futures): the raw results, in pair order
    bonf,                      \* ghost: the last call of bonferroni_correction
    paired_sf_p_values,        \* the list paired_selection_frequency returned
    split_asymmetry_p_values,  \* the list split_asymmetry returned
    asked,                     \* simulate_random_interactions: its argument n
    fit,                       \* fit_model: model_type, max_iter, fitted, reg and the
                               \* attempts made so far (ghost)
    save                       \* save_output: the files on disk, file_path, i, the
                               \* checks made (ghost) and the path written

treeVars == <<dt, malformed, self, stack, visited, ret>>

forestVars == <<estimators, multiple_test_correction, trees, included_features,
                feature_pairs, linked_trees, tree_features_df, futures,
                fisher_test_p_values, bonf, paired_sf_p_values,
                split_asymmetry_p_values, asked>>

otherVars == <<fit, save>>

vars == <<treeVars, forestVars, otherVars, pc>>

(***************************************************************************)
(* Bounds and program constants                                            *)
(***************************************************************************)
\* largest number of split nodes of a tree in Spec
MaxInternal == 4
\* largest number of fit attempts fit_model is followed through
MaxAttempts == 3
\* largest number of files found in the way of save_output
MaxExisting == 3
\* fit_model: max_iter before the first attempt
InitialMaxIter == 100000
\* fit_model: what a convergence warning adds to max_iter
MaxIterIncrement == 100000
\* largest number of split nodes of a tree whose arrays are then corrupted
MaxCorruptInternal == 2
\* sklearn's sentinel in children_left / children_right at a leaf
TREE_LEAF == -1
\* sklearn's sentinel in feature at a leaf
TREE_UNDEFINED == -2
\* largest number of trees of a forest of arbitrary trees in SpecForest
MaxTrees == 3
\* largest number of split nodes of a tree of such a forest
MaxForestInternal == 2
\* largest number of trees of a forest in SpecPairs
MaxSimTrees == 2
\* largest number of pairs asked of simulate_random_interactions
MaxAsked == 2
\* largest number of split nodes of the tree a forest of copies repeats
MaxReplicaInternal == 5
\* the t-test's p-values are the multiples of 1/TTestResolution in [0, 1]
TTestResolution == 4
\* main: valid_feature_pair(*fp, alphabet_size=20)
AlphabetSize == 20
\* split_asymmetry: at least five linked trees, at least five slopes
MinSlopes == 5
\* feature indices a split may use (alphabet blocks 0, 0 and 1 for size 20)
Features == {3, 7, 25}
\* the features of the tree a forest of copies repeats: one valid pair
ReplicaFeatures == {3, 25}

(***************************************************************************)
(* The raw arrays of a fitted tree                                         *)
(***************************************************************************)
Ids(n) == 0 .. (n - 1)

\* a single-leaf tree: what the builder adds for the root before any split
RootOnly ==
    [node_count |-> 1,
     feature |-> [i \in Ids(1) |-> TREE_UNDEFINED],
     children_left |-> [i \in Ids(1) |-> TREE_LEAF],
     children_right |-> [i \in Ids(1) |-> TREE_LEAF],
     value |-> [i \in Ids(1) |-> 0]]

IsLeafOf(t, v) == t.children_left[v] = t.children_right[v]

LeavesOf(t) == {v \in Ids(t.node_count) : IsLeafOf(t, v)}

SplitsOf(t) == {v \in Ids(t.node_count) : ~IsLeafOf(t, v)}

\* leaf v becomes a split on f; its two children are appended, left first;
\* the predicted value of a node is taken to be the rank at which it was added
SplitLeaf(t, v, f) ==
    LET n == t.node_count
    IN  [node_count |-> n + 2,
         feature |-> [i \in Ids(n + 2) |->
                        IF i = v THEN f
                        ELSE IF i < n THEN t.feature[i] ELSE TREE_UNDEFINED],
         children_left |-> [i \in Ids(n + 2) |->
                        IF i = v THEN n
                        ELSE IF i < n THEN t.children_left[i] ELSE TREE_LEAF],
         children_right |-> [i \in Ids(n + 2) |->
                        IF i = v THEN n + 1
                        ELSE IF i < n THEN t.children_right[i] ELSE TREE_LEAF],
         value |-> [i \in Ids(n + 2) |-> i]]

\* every tree with exactly k splits on features of F, ids in the order the
\* nodes were added
RECURSIVE GrownTreesOver(_, _)
GrownTreesOver(k, F) ==
    IF k = 0 THEN {RootOnly}
    ELSE UNION {{SplitLeaf(t, v, f) : v \in LeavesOf(t), f \in F} :
                    t \in GrownTreesOver(k - 1, F)}

GrownTrees(k) == GrownTreesOver(k, Features)

\* the nodes of the subtree of v, parent first, left subtree before right
RECURSIVE PreOrder(_, _)
PreOrder(t, v) ==
    IF IsLeafOf(t, v) THEN <<v>>
    ELSE <<v>> \o PreOrder(t, t.children_left[v]) \o PreOrder(t, t.children_right[v])

\* the same tree with its ids renumbered in depth-first pre-order
DepthFirstIds(t) ==
    LET order == PreOrder(t, 0)
        rank(v) == (CHOOSE j \in 1 .. Len(order) : order[j] = v) - 1
        child(c) == IF c = TREE_LEAF THEN TREE_LEAF ELSE rank(c)
    IN  [node_count |-> t.node_count,
         feature |-> [i \in Ids(t.node_count) |-> t.feature[order[i + 1]]],
         children_left |-> [i \in Ids(t.node_count) |->
                                child(t.children_left[order[i + 1]])],
         children_right |-> [i \in Ids(t.node_count) |->
                                child(t.children_right[order[i + 1]])],
         value |-> [i \in Ids(t.node_count) |-> t.value[order[i + 1]]]]

\* the arrays a fitted tree with at most k splits can hold
FittedTrees(k) ==
    LET grown == UNION {GrownTrees(j) : j \in 0 .. k}
    IN  grown \cup {DepthFirstIds(t) : t \in grown}

\* the three-node tree whose root splits on feature 5
ThreeNodeTree == SplitLeaf(RootOnly, 0, 5)

\* child indices outside [0, n): one past the end, -1, one before -n
OutOfBounds(n) == {n, -1, -(n + 1)}

\* a fitted tree with one child index of one split node put out of bounds
CorruptedTrees(k) ==
    UNION {{[t EXCEPT !.children_left[v] = bad] : v \in SplitsOf(t), bad \in OutOfBounds(t.node_count)}
           \cup
           {[t EXCEPT !.children_right[v] = bad] : v \in SplitsOf(t), bad \in OutOfBounds(t.node_count)}
           : t \in FittedTrees(k)}

(***************************************************************************)
(* DecisionTree_.__init__                                                  *)
(***************************************************************************)
\* numpy indexing of an array of length n: negative indices count from the end
InRange(n, i) == -n <= i /\ i < n

Wrap(n, i) == IF i < 0 THEN n + i ELSE i

\* lines 9-12 and 16: the object and the stack before the loop
NewTree(d) ==
    [n_nodes |-> d.node_count,
     features |-> d.feature,
     tree |-> <<>>,
     leaf_idx |-> [i \in Ids(d.node_count) |-> FALSE],
     internal_node_features |-> <<>>]

\* self.tree.setdefault(node_id, []).append(c)
SetDefaultAppend(tree, node_id, c) ==
    IF node_id \in DOMAIN tree
    THEN [tree EXCEPT ![node_id] = Append(@, c)]
    ELSE tree @@ (node_id :> <<c>>)

\* mutant of VisitNode: the leaf mark is set for split nodes too
VisitNodeMarksEveryNode(s, d, node_id) ==
    LET children_left_ids == d.children_left[Wrap(d.node_count, node_id)]
        children_right_ids == d.children_right[Wrap(d.node_count, node_id)]
        marked == [s EXCEPT !.leaf_idx[Wrap(d.node_count, node_id)] = TRUE]
    IN  IF children_left_ids # children_right_ids
        THEN [marked EXCEPT !.tree = SetDefaultAppend(
                                   SetDefaultAppend(s.tree, node_id, children_left_ids),
                                   node_id, children_right_ids)]
        ELSE marked

\* mutant of VisitNode: the right child is recorded before the left child
VisitNodeRightFirst(s, d, node_id) ==
    LET children_left_ids == d.children_left[Wrap(d.node_count, node_id)]
        children_right_ids == d.children_right[Wrap(d.node_count, node_id)]
        is_split_node == children_left_ids # children_right_ids
    IN  IF is_split_node
        THEN [s EXCEPT !.tree = SetDefaultAppend(
                                   SetDefaultAppend(s.tree, node_id, children_right_ids),
                                   node_id, children_left_ids)]
        ELSE [s EXCEPT !.leaf_idx[Wrap(d.node_count, node_id)] = TRUE]

\* lines 24-34: the body of the loop for a popped node_id that indexes the arrays
VisitNode(s, d, node_id) ==
    LET children_left_ids == d.children_left[Wrap(d.node_count, node_id)]
        children_right_ids == d.children_right[Wrap(d.node_count, node_id)]
        is_split_node == children_left_ids # children_right_ids
    IN  IF is_split_node
        THEN [s EXCEPT !.tree = SetDefaultAppend(
                                   SetDefaultAppend(s.tree, node_id, children_left_ids),
                                   node_id, children_right_ids)]
        ELSE [s EXCEPT !.leaf_idx[Wrap(d.node_count, node_id)] = TRUE]

\* mutant of PushChildren: only the left child is pushed
PushLeftChild(stk, d, node_id) ==
    LET children_left_ids == d.children_left[Wrap(d.node_count, node_id)]
        children_right_ids == d.children_right[Wrap(d.node_count, node_id)]
    IN  IF children_left_ids # children_right_ids
        THEN Append(stk, children_left_ids)
        ELSE stk

\* lines 27-28: what the loop body leaves on the stack
PushChildren(stk, d, node_id) ==
    LET children_left_ids == d.children_left[Wrap(d.node_count, node_id)]
        children_right_ids == d.children_right[Wrap(d.node_count, node_id)]
    IN  IF children_left_ids # children_right_ids
        THEN stk \o <<children_left_ids, children_right_ids>>
        ELSE stk

\* mutant of MaskedFeatures: a feature already taken is not taken again
RECURSIVE MaskedFeaturesDistinct(_, _, _)
MaskedFeaturesDistinct(features, leaf_idx, i) ==
    IF i < 0 THEN <<>>
    ELSE LET rest == MaskedFeaturesDistinct(features, leaf_idx, i - 1)
         IN  IF leaf_idx[i] \/ (\E j \in 1 .. Len(rest) : rest[j] = features[i])
             THEN rest
             ELSE Append(rest, features[i])

\* self.features[~self.leaf_idx]: the features of the ids not marked, in id order
RECURSIVE MaskedFeatures(_, _, _)
MaskedFeatures(features, leaf_idx, i) ==
    IF i < 0 THEN <<>>
    ELSE LET rest == MaskedFeatures(features, leaf_idx, i - 1)
         IN  IF leaf_idx[i] THEN rest ELSE Append(rest, features[i])

\* line 36
WithInternalNodeFeatures(s) ==
    [s EXCEPT !.internal_node_features =
                  MaskedFeatures(s.features, s.leaf_idx, s.n_nodes - 1)]

NoCall == [op |-> "none", arg |-> <<>>, status |-> "none", value |-> 0]

\* lines 17-34: one iteration of the while loop
CtorLoop ==
    /\ pc = "ctor"
    /\ Len(stack) > 0
    /\ LET node_id == stack[Len(stack)]
           popped == SubSeq(stack, 1, Len(stack) - 1)
       IN  IF InRange(dt.node_count, node_id)
           THEN /\ self' = VisitNode(self, dt, node_id)
                /\ stack' = PushChildren(popped, dt, node_id)
                /\ visited' = Append(visited, node_id)
                /\ pc' = "ctor"
           ELSE \* children_left[node_id] raises: no object is produced
                /\ pc' = "IndexError"
                /\ stack' = popped
                /\ UNCHANGED <<self, visited>>
    /\ UNCHANGED <<otherVars, dt, malformed, ret, forestVars>>

\* line 36, reached when the stack is empty
CtorReturn ==
    /\ pc = "ctor"
    /\ Len(stack) = 0
    /\ self' = WithInternalNodeFeatures(self)
    /\ pc' = "built"
    /\ UNCHANGED <<otherVars, dt, malformed, stack, visited, ret, forestVars>>

(***************************************************************************)
(* Queries on a constructed tree                                           *)
(***************************************************************************)
Min(S) == CHOOSE x \in S : \A y \in S : x <= y

\* np.where(self.features == feature)[0]
WhereFeature(s, feature) == {i \in Ids(s.n_nodes) : s.features[i] = feature}

Max(S) == CHOOSE x \in S : \A y \in S : x >= y

\* mutant of get_feature_first_node_id: the last match instead of the first
get_feature_last_node_id(s, feature) ==
    IF WhereFeature(s, feature) = {}
    THEN [status |-> "ValueError", value |-> 0]
    ELSE [status |-> "return", value |-> Max(WhereFeature(s, feature))]

\* lines 38-42
get_feature_first_node_id(s, feature) ==
    IF WhereFeature(s, feature) = {}
    THEN [status |-> "ValueError", value |-> 0]
    ELSE [status |-> "return", value |-> Min(WhereFeature(s, feature))]

\* i in self.internal_node_features
InArray(x, arr) == \E j \in 1 .. Len(arr) : arr[j] = x

\* lines 56-68; "T" / "F" for the boolean returned, "KeyError" when
\* self.tree[node] has no such key
RECURSIVE recursive_search(_, _, _)
recursive_search(s, node, feature_2) ==
    IF node \notin DOMAIN s.tree THEN "KeyError"
    ELSE LET children == s.tree[node]
             isleaf(c) == s.leaf_idx[Wrap(s.n_nodes, c)]
             below == {recursive_search(s, children[j], feature_2) :
                          j \in {i \in 1 .. Len(children) : ~isleaf(children[i])}}
         IN  IF \E j \in 1 .. Len(children) : children[j] = feature_2 THEN "T"
             ELSE IF \A j \in 1 .. Len(children) : isleaf(children[j]) THEN "F"
             ELSE IF "KeyError" \in below THEN "KeyError"
             ELSE IF "T" \in below THEN "T" ELSE "F"

\* lines 55-70
traverse_tree(s, feature_1, feature_2) == recursive_search(s, feature_1, feature_2)

\* mutant of linked_features: the search from the second feature is left out
linked_features_first_direction_only(s, feature_pair) ==
    IF ~(\A j \in 1 .. 2 : InArray(feature_pair[j], s.internal_node_features))
    THEN [status |-> "return", value |-> FALSE]
    ELSE LET feature_1_id == get_feature_first_node_id(s, feature_pair[1]).value
             feature_2_id == get_feature_first_node_id(s, feature_pair[2]).value
             first == traverse_tree(s, feature_1_id, feature_2_id)
         IN  IF first = "KeyError" THEN [status |-> "KeyError", value |-> FALSE]
             ELSE [status |-> "return", value |-> first = "T"]

\* mutant of linked_features: lines 52-53, the test that both features are in
\* internal_node_features, are left out
linked_features_without_membership_test(s, feature_pair) ==
    LET lookup_1 == get_feature_first_node_id(s, feature_pair[1])
        lookup_2 == get_feature_first_node_id(s, feature_pair[2])
        first == traverse_tree(s, lookup_1.value, lookup_2.value)
        second == traverse_tree(s, lookup_2.value, lookup_1.value)
    IN  IF lookup_1.status # "return" \/ lookup_2.status # "return"
        THEN [status |-> "ValueError", value |-> FALSE]
        ELSE IF first = "KeyError" THEN [status |-> "KeyError", value |-> FALSE]
        ELSE IF first = "T" THEN [status |-> "return", value |-> TRUE]
        ELSE IF second = "KeyError" THEN [status |-> "KeyError", value |-> FALSE]
        ELSE IF second = "T" THEN [status |-> "return", value |-> TRUE]
        ELSE [status |-> "return", value |-> FALSE]

\* lines 44-85 for a pair of two features
linked_features(s, feature_pair) ==
    IF ~(\A j \in 1 .. 2 : InArray(feature_pair[j], s.internal_node_features))
    THEN [status |-> "return", value |-> FALSE]
    ELSE LET feature_1_id == get_feature_first_node_id(s, feature_pair[1]).value
             feature_2_id == get_feature_first_node_id(s, feature_pair[2]).value
             first == traverse_tree(s, feature_1_id, feature_2_id)
             second == traverse_tree(s, feature_2_id, feature_1_id)
         IN  IF first = "KeyError" THEN [status |-> "KeyError", value |-> FALSE]
             ELSE IF first = "T" THEN [status |-> "return", value |-> TRUE]
             ELSE IF second = "KeyError" THEN [status |-> "KeyError", value |-> FALSE]
             ELSE IF second = "T" THEN [status |-> "return", value |-> TRUE]
             ELSE [status |-> "return", value |-> FALSE]

\* the arguments the queries are tried with: every feature, the leaf sentinel
\* and the feature of the three-node tree
QueryFeatures == Features \cup {TREE_UNDEFINED, 5}

\* one query is made on each constructed tree: the queries change nothing they read

CallGetFeatureFirstNodeId ==
    /\ pc = "built"
    /\ \E feature \in QueryFeatures :
          LET r == get_feature_first_node_id(self, feature)
          IN  ret' = [op |-> "get_feature_first_node_id", arg |-> <<feature>>,
                      status |-> r.status, value |-> r.value]
    /\ pc' = "called"
    /\ UNCHANGED <<otherVars, dt, malformed, self, stack, visited, forestVars>>

CallLinkedFeatures ==
    /\ pc = "built"
    /\ \E a \in QueryFeatures, b \in QueryFeatures :
          LET r == linked_features(self, <<a, b>>)
          IN  ret' = [op |-> "linked_features", arg |-> <<a, b>>,
                      status |-> r.status, value |-> r.value]
    /\ pc' = "called"
    /\ UNCHANGED <<otherVars, dt, malformed, self, stack, visited, forestVars>>

NoBonf == [called |-> FALSE, input |-> <<>>, status |-> "none", output |-> <<>>]

\* the forest variables before main has run
ForestUnset ==
    /\ trees = <<>>
    /\ included_features = <<>>
    /\ feature_pairs = <<>>
    /\ linked_trees = <<>>
    /\ tree_features_df = <<>>
    /\ futures = <<>>
    /\ fisher_test_p_values = <<>>
    /\ bonf = NoBonf
    /\ paired_sf_p_values = <<>>
    /\ split_asymmetry_p_values = <<>>

\* no model was reached
NoReg == [model |-> "none", max_iter |-> 0, w |-> <<>>]

NoFit == [model_type |-> "none", max_iter |-> 0, fitted |-> FALSE,
          attempts |-> <<>>, reg |-> NoReg]

NoSave == [outdir |-> <<>>, files |-> {}, file_path |-> <<>>, i |-> 0,
           checked |-> <<>>, written |-> <<>>]

\* only SpecFit fits and saves
FitIdle ==
    /\ fit = NoFit
    /\ save = NoSave

\* Spec has no forest
ForestIdle ==
    /\ estimators = <<>>
    /\ multiple_test_correction = TRUE
    /\ asked = 0
    /\ ForestUnset

(***************************************************************************)
(* Spec: one tree                                                          *)
(***************************************************************************)
Init ==
    /\ \/ /\ dt \in FittedTrees(MaxInternal) \cup {ThreeNodeTree}
          /\ malformed = FALSE
       \/ /\ dt \in CorruptedTrees(MaxCorruptInternal)
          /\ malformed = TRUE
    /\ self = NewTree(dt)
    /\ stack = <<0>>
    /\ visited = <<>>
    /\ pc = "ctor"
    /\ ret = NoCall
    /\ ForestIdle
    /\ FitIdle

Next ==
    \/ CtorLoop
    \/ CtorReturn
    \/ CallGetFeatureFirstNodeId
    \/ CallLinkedFeatures

Spec == Init /\ [][Next]_vars

\* the constructor alone; the while loop runs until the stack is empty
NextCtor ==
    \/ CtorLoop
    \/ CtorReturn

SpecCtor == Init /\ [][NextCtor]_vars /\ WF_vars(CtorLoop) /\ WF_vars(CtorReturn)

(***************************************************************************)
(* main: the forest, the candidate pairs, the co-occurrence mapping        *)
(***************************************************************************)
\* DecisionTree_(dt) run to completion on the arrays of a fitted tree
RECURSIVE RunCtor(_, _, _)
RunCtor(s, stk, d) ==
    IF Len(stk) = 0 THEN WithInternalNodeFeatures(s)
    ELSE LET node_id == stk[Len(stk)]
             popped == SubSeq(stk, 1, Len(stk) - 1)
         IN  RunCtor(VisitNode(s, d, node_id), PushChildren(popped, d, node_id), d)

\* the object main keeps for an estimator; decision_tree is the estimator itself
DecisionTree(d) ==
    [decision_tree |-> d] @@ RunCtor(NewTree(d), <<0>>, d)

RECURSIVE SortedSeq(_)
SortedSeq(S) == IF S = {} THEN <<>> ELSE <<Min(S)>> \o SortedSeq(S \ {Min(S)})

ArrayValues(arr) == {arr[j] : j \in 1 .. Len(arr)}

\* lines 215-217: np.unique(np.concatenate(...)), ascending and distinct
IncludedFeatures(ts) ==
    SortedSeq(UNION {ArrayValues(ts[i].internal_node_features) : i \in 1 .. Len(ts)})

\* itertools.combinations(seq, 2), in its lexicographic order
RECURSIVE CombinationsFrom(_, _, _)
CombinationsFrom(seq, i, j) ==
    IF i >= Len(seq) THEN <<>>
    ELSE IF j > Len(seq) THEN CombinationsFrom(seq, i + 1, i + 2)
    ELSE <<<<seq[i], seq[j]>>>> \o CombinationsFrom(seq, i, j + 1)

combinations(seq) == CombinationsFrom(seq, 1, 2)

\* the two features are distinct and lie in different alphabet blocks
valid_feature_pair(f1, f2, alphabet_size) ==
    f1 # f2 /\ (f1 \div alphabet_size) # (f2 \div alphabet_size)

\* lines 220-223
FeaturePairs(included) ==
    SelectSeq(combinations(included), LAMBDA fp : valid_feature_pair(fp[1], fp[2], AlphabetSize))

\* mutant of LinkedIn: every tree of the collection is listed
LinkedInEveryTree(ts, fp) == SortedSeq(1 .. Len(ts))

\* the indices of the trees in which the pair is linked, ascending
LinkedIn(ts, fp) ==
    SortedSeq({i \in 1 .. Len(ts) : linked_features(ts[i], fp).value})

\* pair -> the trees in which it is linked, one entry per candidate pair
co_occuring_feature_pairs(ts, pairs) ==
    [k \in 1 .. Len(pairs) |-> <<pairs[k], LinkedIn(ts, pairs[k])>>]

\* lines 209-226
Main ==
    /\ pc = "main"
    /\ trees' = [i \in 1 .. Len(estimators) |-> DecisionTree(estimators[i])]
    /\ included_features' = IncludedFeatures(trees')
    /\ feature_pairs' = FeaturePairs(included_features')
    /\ linked_trees' = co_occuring_feature_pairs(trees', feature_pairs')
    /\ pc' = "psf"
    /\ UNCHANGED <<treeVars, otherVars, asked, estimators, multiple_test_correction, tree_features_df,
                   futures, fisher_test_p_values, bonf, paired_sf_p_values,
                   split_asymmetry_p_values>>

(***************************************************************************)
(* p-values: exact rationals <<numerator, denominator>>, denominator > 0   *)
(***************************************************************************)
PLeq(p, q) == p[1] * q[2] <= q[1] * p[2]

PEq(p, q) == p[1] * q[2] = q[1] * p[2]

POne == <<1, 1>>

RECURSIVE Binomial(_, _)
Binomial(n, k) ==
    IF k < 0 \/ k > n THEN 0
    ELSE IF k = 0 THEN 1
    ELSE (Binomial(n - 1, k - 1) * n) \div k

RECURSIVE SumOver(_, _, _)
SumOver(f, lo, hi) == IF lo > hi THEN 0 ELSE f[lo] + SumOver(f, lo + 1, hi)

\* scipy.stats.fisher_exact([[a, b], [c, d]], alternative="greater")[1]: the
\* hypergeometric probability of a top-left cell of at least a
fisher_exact_greater(table) ==
    LET a == table[1]
        b == table[2]
        c == table[3]
        d == table[4]
        hi == IF a + b < a + c THEN a + b ELSE a + c
        term == [k \in a .. hi |-> Binomial(a + b, k) * Binomial(c + d, a + c - k)]
    IN  <<SumOver(term, a, hi), Binomial(a + b + c + d, a + c)>>

\* statsmodels multipletests(pvals, method="bonferroni")[1]: p * n capped at 1,
\* in the order given; 1./ntests raises for an empty batch
multipletests_bonferroni(pvals) ==
    LET ntests == Len(pvals)
    IN  IF ntests = 0
        THEN [status |-> "ZeroDivisionError", value |-> <<>>]
        ELSE [status |-> "return",
              value |-> [i \in 1 .. ntests |->
                            IF pvals[i][1] * ntests > pvals[i][2]
                            THEN POne
                            ELSE <<pvals[i][1] * ntests, pvals[i][2]>>]]

\* mutant of bonferroni_correction: key i is given the corrected value of
\* the entry n + 1 - i
bonferroni_correction_misaligned(p_values) ==
    LET corrected_p_values ==
            multipletests_bonferroni([i \in 1 .. Len(p_values) |-> p_values[i][2]])
    IN  IF corrected_p_values.status # "return"
        THEN corrected_p_values
        ELSE [status |-> "return",
              value |-> [i \in 1 .. Len(p_values) |->
                            <<p_values[i][1],
                              corrected_p_values.value[Len(p_values) + 1 - i]>>]]

\* lines 23-32; p_values is a list of <<key, p>>
bonferroni_correction(p_values) ==
    LET corrected_p_values ==
            multipletests_bonferroni([i \in 1 .. Len(p_values) |-> p_values[i][2]])
    IN  IF corrected_p_values.status # "return"
        THEN corrected_p_values
        ELSE [status |-> "return",
              value |-> [i \in 1 .. Len(p_values) |->
                            <<p_values[i][1], corrected_p_values.value[i]>>]]

BonfCall(input) ==
    LET r == bonferroni_correction(input)
    IN  [called |-> TRUE, input |-> input, status |-> r.status, output |-> r.value]

\* mutant of InsertByPValue: x is placed before the entries of equal p-value
RECURSIVE InsertBeforeEquals(_, _)
InsertBeforeEquals(sorted, x) ==
    IF Len(sorted) = 0 THEN <<x>>
    ELSE IF ~PLeq(x[2], sorted[Len(sorted)][2]) THEN Append(sorted, x)
    ELSE Append(InsertBeforeEquals(SubSeq(sorted, 1, Len(sorted) - 1), x),
                sorted[Len(sorted)])

\* x placed after the last entry of the sorted list whose p-value is not larger
RECURSIVE InsertByPValue(_, _)
InsertByPValue(sorted, x) ==
    IF Len(sorted) = 0 THEN <<x>>
    ELSE IF PLeq(sorted[Len(sorted)][2], x[2]) THEN Append(sorted, x)
    ELSE Append(InsertByPValue(SubSeq(sorted, 1, Len(sorted) - 1), x),
                sorted[Len(sorted)])

RECURSIVE SortPrefix(_, _)
SortPrefix(lst, k) ==
    IF k = 0 THEN <<>> ELSE InsertByPValue(SortPrefix(lst, k - 1), lst[k])

\* mutant of SortByPValue: the list is returned in the order gathered
LeftUnsorted(lst) == lst

\* list.sort(key=itemgetter(1)): ascending by p-value, stable
SortByPValue(lst) == SortPrefix(lst, Len(lst))

(***************************************************************************)
(* paired_selection_frequency                                              *)
(***************************************************************************)
\* lines 54-58: one row per tree, one column per included feature
FeatureTreeMatches(ts, included) ==
    [t \in 1 .. Len(ts) |->
        [f \in ArrayValues(included) |-> InArray(f, ts[t].internal_node_features)]]

Rows(df) == 1 .. Len(df)

\* lines 65-68: the four counts of the task
ContingencyTable(feature_pair, df) ==
    LET f_1 == feature_pair[1]
        f_2 == feature_pair[2]
        N_1 == Cardinality({t \in Rows(df) : df[t][f_1] /\ ~df[t][f_2]})
        N_2 == Cardinality({t \in Rows(df) : ~df[t][f_1] /\ df[t][f_2]})
        N_12 == Cardinality({t \in Rows(df) : df[t][f_2] /\ df[t][f_2]})
        N_neither == Cardinality({t \in Rows(df) : ~df[t][f_1] /\ ~df[t][f_2]})
    IN  <<N_12, N_1, N_2, N_neither>>

\* mutant of paired_selection_frequency_: the result is keyed by the pair reversed
paired_selection_frequency_reversed_key(feature_pair, df) ==
    <<<<feature_pair[2], feature_pair[1]>>,
      fisher_exact_greater(ContingencyTable(feature_pair, df))>>

\* lines 60-74: the remote task of one pair
paired_selection_frequency_(feature_pair, df) ==
    <<<<feature_pair[1], feature_pair[2]>>,
      fisher_exact_greater(ContingencyTable(feature_pair, df))>>

\* what an object ref holds before its task has finished: no result
NoResult == <<<<0, 0>>, <<0, 1>>>>

\* order: the rank of the task among the finished ones (ghost), 0 while it runs
Pending == [done |-> FALSE, failed |-> FALSE, order |-> 0,
            table |-> <<0, 0, 0, 0>>, result |-> NoResult]

Finished(futs) == {i \in 1 .. Len(futs) : futs[i].done \/ futs[i].failed}

\* lines 54-83: the table is built and one task per pair is submitted
PsfDispatch ==
    /\ pc = "psf"
    /\ tree_features_df' = FeatureTreeMatches(trees, included_features)
    /\ futures' = [i \in 1 .. Len(feature_pairs) |-> Pending]
    /\ pc' = "tasks"
    /\ UNCHANGED <<treeVars, otherVars, asked, estimators, multiple_test_correction, trees,
                   included_features, feature_pairs, linked_trees,
                   fisher_test_p_values, bonf, paired_sf_p_values,
                   split_asymmetry_p_values>>

\* mutant of PsfTask: the task also clears the column of its first feature
PsfTaskWritesTable ==
    /\ pc = "tasks"
    /\ \E i \in 1 .. Len(futures) :
          /\ i \notin Finished(futures)
          /\ futures' = [futures EXCEPT ![i] =
                [done |-> TRUE,
                 failed |-> FALSE,
                 order |-> Cardinality(Finished(futures)) + 1,
                 table |-> ContingencyTable(feature_pairs[i], tree_features_df),
                 result |-> paired_selection_frequency_(feature_pairs[i],
                                                        tree_features_df)]]
          /\ tree_features_df' =
                [t \in Rows(tree_features_df) |->
                    [tree_features_df[t] EXCEPT ![feature_pairs[i][1]] = FALSE]]
    /\ UNCHANGED <<treeVars, otherVars, asked, pc, estimators, multiple_test_correction, trees,
                   included_features, feature_pairs, linked_trees,
                   fisher_test_p_values, bonf, paired_sf_p_values,
                   split_asymmetry_p_values>>

\* a worker runs the task of one pair, in any order
PsfTask ==
    /\ pc = "tasks"
    /\ \E i \in 1 .. Len(futures) :
          /\ i \notin Finished(futures)
          /\ futures' = [futures EXCEPT ![i] =
                [done |-> TRUE,
                 failed |-> FALSE,
                 order |-> Cardinality(Finished(futures)) + 1,
                 table |-> ContingencyTable(feature_pairs[i], tree_features_df),
                 result |-> paired_selection_frequency_(feature_pairs[i],
                                                        tree_features_df)]]
    /\ UNCHANGED <<treeVars, otherVars, asked, pc, estimators, multiple_test_correction, trees,
                   included_features, feature_pairs, linked_trees, tree_features_df,
                   fisher_test_p_values, bonf, paired_sf_p_values,
                   split_asymmetry_p_values>>

\* the task of one pair raises (an exception in its body, or its worker is
\* lost): its object ref holds the error instead of a result
PsfTaskRaises ==
    /\ pc = "tasks"
    /\ \E i \in 1 .. Len(futures) :
          /\ i \notin Finished(futures)
          /\ futures' = [futures EXCEPT ![i] =
                [@ EXCEPT !.failed = TRUE,
                          !.order = Cardinality(Finished(futures)) + 1]]
    /\ UNCHANGED <<treeVars, otherVars, asked, pc, estimators, multiple_test_correction, trees,
                   included_features, feature_pairs, linked_trees, tree_features_df,
                   fisher_test_p_values, bonf, paired_sf_p_values,
                   split_asymmetry_p_values>>

\* mutant of TasksFinished: the gather returns once any one task has finished
SomeTaskFinished(futs) == Finished(futs) # {}

\* line 84: ray.get(futures) blocks until every ref is resolved
TasksFinished(futs) == Finished(futs) = 1 .. Len(futs)

\* the index of the task that finished k-th
FinishedAt(futs, k) == CHOOSE i \in 1 .. Len(futs) : futs[i].order = k

\* mutant of ray_get: the results in the order the tasks finished
ray_get_as_completed(futs) == [k \in 1 .. Len(futs) |-> futs[FinishedAt(futs, k)].result]

\* line 84: ray.get(futures) returns the results in the order of the refs
ray_get(futs) == [i \in 1 .. Len(futs) |-> futs[i].result]

\* lines 84-90: ray.get re-raises the error of a failed task; otherwise the
\* correction, the sort and the return
PsfReturn ==
    /\ pc = "tasks"
    /\ TasksFinished(futures)
    /\ IF \E i \in 1 .. Len(futures) : futures[i].failed
       THEN /\ pc' = "RayTaskError"
            /\ UNCHANGED <<fisher_test_p_values, bonf, paired_sf_p_values>>
       ELSE LET gathered == ray_get(futures)
                call == BonfCall(gathered)
            IN  /\ fisher_test_p_values' = gathered
                /\ IF multiple_test_correction
                   THEN /\ bonf' = call
                        /\ IF call.status = "return"
                           THEN /\ paired_sf_p_values' = SortByPValue(call.output)
                                /\ pc' = "psf_returned"
                           ELSE /\ paired_sf_p_values' = paired_sf_p_values
                                /\ pc' = call.status
                   ELSE /\ bonf' = bonf
                        /\ paired_sf_p_values' = SortByPValue(gathered)
                        /\ pc' = "psf_returned"
    /\ UNCHANGED <<treeVars, otherVars, asked, estimators, multiple_test_correction, trees,
                   included_features, feature_pairs, linked_trees, tree_features_df,
                   futures, split_asymmetry_p_values>>

(***************************************************************************)
(* split_asymmetry                                                         *)
(***************************************************************************)
\* what get_slope yields: None, a pair of slopes, or the exception it raised
None == [none |-> TRUE, raised |-> "no", slopes |-> <<0, 0>>]

Raised(exception) == [none |-> TRUE, raised |-> exception, slopes |-> <<0, 0>>]

\* the descent check of linked_features as a method: is node id target met
\* strictly below node?  "T" / "F", or "KeyError" when node is a leaf
_traverse_tree(tree, node, target) == recursive_search(tree, node, target)

\* tree.decision_tree.tree_.value.squeeze()
NodeValues(tree) == tree.decision_tree.value

\* the entries n of seq with _traverse_tree(tree, child, n) true
OnSide(tree, child, seq) ==
    SelectSeq(seq, LAMBDA n : _traverse_tree(tree, child, n) = "T")

\* lines 111-152, past the check on the two children of the first node
SlopeBelow(fp, tree, left_child, right_child) ==
    LET all_fp_2 == SortedSeq(WhereFeature(tree, fp[2]))
        descents == {_traverse_tree(tree, c, all_fp_2[j]) :
                        c \in {left_child, right_child}, j \in 1 .. Len(all_fp_2)}
        on_left == OnSide(tree, left_child, all_fp_2)
    IN
    IF "KeyError" \in descents THEN Raised("KeyError")
    ELSE IF Len(on_left) = 0 THEN None
    ELSE
    LET rest == SelectSeq(all_fp_2, LAMBDA n : ~InArray(n, on_left))
        on_right == OnSide(tree, right_child, rest)
        \* line 128 appends the right-hand nodes to left_fp_2_loc
        left_fp_2_loc == on_left \o on_right
        right_fp_2_loc == <<>>
    IN
    IF Len(right_fp_2_loc) = 0 THEN None
    ELSE
    LET node_values == NodeValues(tree)
        slope_1 == node_values[tree.decision_tree.children_left[left_fp_2_loc[1]]]
                    - node_values[tree.decision_tree.children_right[left_fp_2_loc[1]]]
        slope_2 == node_values[tree.decision_tree.children_left[right_fp_2_loc[1]]]
                    - node_values[tree.decision_tree.children_right[right_fp_2_loc[1]]]
    IN  [none |-> FALSE, raised |-> "no", slopes |-> <<slope_1, slope_2>>]

\* mutant of get_slope: lines 108-109, the check that neither child of the
\* first node is a leaf, are left out
get_slope_without_leaf_check(fp, tree) ==
    IF Cardinality(WhereFeature(tree, fp[2])) < 2 THEN None
    ELSE IF get_feature_first_node_id(tree, fp[1]).status # "return"
    THEN Raised(get_feature_first_node_id(tree, fp[1]).status)
    ELSE
    LET fp_1 == get_feature_first_node_id(tree, fp[1]).value
        left_child == tree.decision_tree.children_left[fp_1]
        right_child == tree.decision_tree.children_right[fp_1]
    IN  SlopeBelow(fp, tree, left_child, right_child)

\* lines 100-152
get_slope(fp, tree) ==
    IF Cardinality(WhereFeature(tree, fp[2])) < 2 THEN None
    ELSE IF get_feature_first_node_id(tree, fp[1]).status # "return"
    THEN Raised(get_feature_first_node_id(tree, fp[1]).status)
    ELSE
    LET fp_1 == get_feature_first_node_id(tree, fp[1]).value
        left_child == tree.decision_tree.children_left[fp_1]
        right_child == tree.decision_tree.children_right[fp_1]
    IN
    IF tree.leaf_idx[Wrap(tree.n_nodes, left_child)]
         \/ tree.leaf_idx[Wrap(tree.n_nodes, right_child)]
    THEN None
    ELSE SlopeBelow(fp, tree, left_child, right_child)

\* lines 158-159: the slopes of the trees of one pair, None dropped
SlopesOf(fp, linked, ts) ==
    SelectSeq([k \in 1 .. Len(linked) |-> get_slope(fp, ts[linked[k]])],
              LAMBDA r : ~r.none)

\* line 98
CandidateFps(linked) == SelectSeq(linked, LAMBDA e : Len(e[2]) >= MinSlopes)

\* mutant of FpSlopes: the second count of line 160 is left out
FpSlopesUnfiltered(linked, ts) ==
    [k \in 1 .. Len(CandidateFps(linked)) |->
        <<CandidateFps(linked)[k][1],
          SlopesOf(CandidateFps(linked)[k][1], CandidateFps(linked)[k][2], ts)>>]

\* lines 156-161: the pairs that keep at least five slopes, with them
FpSlopes(linked, ts) ==
    SelectSeq([k \in 1 .. Len(CandidateFps(linked)) |->
                  <<CandidateFps(linked)[k][1],
                    SlopesOf(CandidateFps(linked)[k][1], CandidateFps(linked)[k][2], ts)>>],
              LAMBDA e : Len(e[2]) >= MinSlopes)

\* the values ttest_ind(...)[1] may take, to the resolution of the model
TTestPValues == {<<k, TTestResolution>> : k \in 0 .. TTestResolution}

\* the exceptions raised by the calls of get_slope at line 158
SlopeErrors(linked, ts) ==
    UNION {{get_slope(CandidateFps(linked)[k][1], ts[CandidateFps(linked)[k][2][j]]).raised :
                j \in 1 .. Len(CandidateFps(linked)[k][2])} :
            k \in 1 .. Len(CandidateFps(linked))} \ {"no"}

\* lines 93-176, called by main after paired_selection_frequency returned
SplitAsymmetry ==
    /\ pc = "psf_returned"
    /\ IF SlopeErrors(linked_trees, trees) # {}
       THEN /\ pc' \in SlopeErrors(linked_trees, trees)
            /\ UNCHANGED <<bonf, split_asymmetry_p_values>>
       ELSE
       LET fp_slopes == FpSlopes(linked_trees, trees)
       IN  /\ \E pv \in [1 .. Len(fp_slopes) -> TTestPValues] :
                LET ttest_p_values == [k \in 1 .. Len(fp_slopes) |-> <<fp_slopes[k][1], pv[k]>>]
                    call == BonfCall(ttest_p_values)
                IN  IF multiple_test_correction /\ Len(ttest_p_values) > 0
                    THEN /\ bonf' = call
                         /\ split_asymmetry_p_values' = SortByPValue(call.output)
                    ELSE /\ bonf' = bonf
                         /\ split_asymmetry_p_values' = SortByPValue(ttest_p_values)
           /\ pc' = "sa_returned"
    /\ UNCHANGED <<treeVars, otherVars, asked, estimators, multiple_test_correction, trees,
                   included_features, feature_pairs, linked_trees, tree_features_df,
                   futures, fisher_test_p_values, paired_sf_p_values>>

(***************************************************************************)
(* SpecForest: main on a fitted forest                                     *)
(***************************************************************************)
\* the arrays of the trees of a forest: depth-first ids, at most k splits
ForestTrees(k) == {DepthFirstIds(t) : t \in UNION {GrownTrees(j) : j \in 0 .. k}}

\* the tree a forest of copies repeats: depth-first ids, at most k splits
ReplicaTrees(k) ==
    {DepthFirstIds(t) : t \in UNION {GrownTreesOver(j, ReplicaFeatures) : j \in 0 .. k}}

\* the non-empty sequences over S of length at most n
RECURSIVE SeqsUpTo(_, _)
SeqsUpTo(S, n) ==
    IF n = 0 THEN {}
    ELSE {<<x>> : x \in S}
            \cup {Append(q, x) : q \in SeqsUpTo(S, n - 1), x \in S}

\* small forests of any trees, and forests of MinSlopes copies of one tree
Forests ==
    SeqsUpTo(ForestTrees(MaxForestInternal), MaxTrees)
        \cup {[i \in 1 .. MinSlopes |-> t] : t \in ReplicaTrees(MaxReplicaInternal)}

\* SpecForest has no tree of its own under construction
TreeIdle ==
    /\ dt = RootOnly
    /\ malformed = FALSE
    /\ self = NewTree(RootOnly)
    /\ stack = <<>>
    /\ visited = <<>>
    /\ ret = NoCall

InitForest ==
    /\ estimators \in Forests
    /\ multiple_test_correction \in BOOLEAN
    /\ asked = 0
    /\ ForestUnset
    /\ TreeIdle
    /\ FitIdle
    /\ pc = "main"

NextForest ==
    \/ Main
    \/ PsfDispatch
    \/ PsfTask
    \/ PsfTaskRaises
    \/ PsfReturn
    \/ SplitAsymmetry

SpecForest == InitForest /\ [][NextForest]_vars

(***************************************************************************)
(* simulate_random_interactions, and SpecPairs: the two producers of pairs *)
(***************************************************************************)
\* lines 53-54: get_included_features() and the empty list
SimStart ==
    /\ pc = "sim"
    /\ trees' = [i \in 1 .. Len(estimators) |-> DecisionTree(estimators[i])]
    /\ included_features' = IncludedFeatures(trees')
    /\ feature_pairs' = <<>>
    /\ pc' = "sim_loop"
    /\ UNCHANGED <<treeVars, otherVars, asked, estimators, multiple_test_correction, linked_trees,
                   tree_features_df, futures, fisher_test_p_values, bonf,
                   paired_sf_p_values, split_asymmetry_p_values>>

\* mutant of AppendIfValid: the pair is kept without the test of line 57
AppendUnchecked(pairs, fp) == Append(pairs, fp)

\* lines 57-58; valid_feature_pair is called with its default alphabet size,
\* taken to be the size main passes
AppendIfValid(pairs, fp) ==
    IF valid_feature_pair(fp[1], fp[2], AlphabetSize) THEN Append(pairs, fp) ELSE pairs

\* lines 55-58: one iteration of the while loop; random.choice of an empty
\* array raises IndexError
SimLoop ==
    /\ pc = "sim_loop"
    /\ Len(feature_pairs) < asked
    /\ IF Len(included_features) = 0
       THEN /\ pc' = "IndexError"
            /\ UNCHANGED feature_pairs
       ELSE /\ \E a \in ArrayValues(included_features), b \in ArrayValues(included_features) :
                  feature_pairs' = AppendIfValid(feature_pairs, <<a, b>>)
            /\ pc' = "sim_loop"
    /\ UNCHANGED <<treeVars, otherVars, asked, estimators, multiple_test_correction, trees,
                   included_features, linked_trees, tree_features_df, futures,
                   fisher_test_p_values, bonf, paired_sf_p_values,
                   split_asymmetry_p_values>>

\* line 60
SimReturn ==
    /\ pc = "sim_loop"
    /\ Len(feature_pairs) >= asked
    /\ pc' = "sim_returned"
    /\ UNCHANGED <<treeVars, otherVars, asked, estimators, multiple_test_correction, trees,
                   included_features, feature_pairs, linked_trees, tree_features_df,
                   futures, fisher_test_p_values, bonf, paired_sf_p_values,
                   split_asymmetry_p_values>>

\* the forests of SpecPairs
SimForests == SeqsUpTo(ForestTrees(MaxForestInternal), MaxSimTrees)

\* either program is started on a fitted forest: main, or
\* simulate_random_interactions(n)
InitPairs ==
    /\ estimators \in SimForests
    /\ multiple_test_correction = TRUE
    /\ ForestUnset
    /\ TreeIdle
    /\ FitIdle
    /\ \/ pc = "main" /\ asked = 0
       \/ pc = "sim" /\ asked \in 0 .. MaxAsked

NextPairs ==
    \/ Main
    \/ PsfDispatch
    \/ PsfTask
    \/ PsfTaskRaises
    \/ PsfReturn
    \/ SplitAsymmetry
    \/ SimStart
    \/ SimLoop
    \/ SimReturn

SpecPairs == InitPairs /\ [][NextPairs]_vars

(***************************************************************************)
(* fit_models.py: fit_model                                                *)
(***************************************************************************)
\* the model types fit_model names, and one it does not
ModelTypes ==
    {"random_forest", "DBSCAN", "DBSCAN_with_UMAP", "elastic_net", "lasso", "ridge"}

\* fitted by one call, outside the retry loop (lines 43-50)
FittedOnce == {"random_forest", "DBSCAN", "DBSCAN_with_UMAP"}

\* fitted inside the retry loop (lines 60-63)
FittedWithMaxIter == {"elastic_net", "lasso"}

WarningCategories == {"ConvergenceWarning", "UserWarning"}

\* what catch_warnings(record=True) can hold after one attempt: the
\* categories of no, one or two warnings
RecordedWarnings ==
    {<<>>} \cup {<<a>> : a \in WarningCategories}
           \cup {<<a, b>> : a \in WarningCategories, b \in WarningCategories}

\* mutant of Outcome: an attempt with a single warning of any category is kept
OutcomeKeepsAnySingleWarning(w) ==
    IF Len(w) > 1 THEN "raise" ELSE "fitted"

\* lines 67-78: what the loop does with the warnings of an attempt
Outcome(w) ==
    IF Len(w) > 1 THEN "raise"
    ELSE IF Len(w) > 0 /\ w[1] = "ConvergenceWarning" THEN "retry"
    ELSE "fitted"

\* lines 43-55: the dispatch on model_type
FitStart ==
    /\ pc = "fit"
    /\ IF fit.model_type \in FittedOnce
       THEN /\ fit' = [fit EXCEPT !.reg = [model |-> fit.model_type,
                                           max_iter |-> 0, w |-> <<>>]]
            /\ pc' = "fit_returned"
       ELSE /\ fit' = [fit EXCEPT !.max_iter = InitialMaxIter, !.fitted = FALSE]
            /\ pc' = "fit_loop"
    /\ UNCHANGED <<treeVars, forestVars, save>>

\* lines 56-80: one iteration of the while loop, and the return that ends it
FitAttempt ==
    /\ pc = "fit_loop"
    /\ ~fit.fitted
    /\ Len(fit.attempts) < MaxAttempts
    /\ IF fit.model_type \notin FittedWithMaxIter
       THEN /\ pc' = "NotImplementedError"
            /\ UNCHANGED fit
       ELSE \E w \in RecordedWarnings :
              LET reg == [model |-> fit.model_type, max_iter |-> fit.max_iter, w |-> w]
                  tried == [fit EXCEPT !.reg = reg, !.attempts = Append(@, reg)]
              IN  CASE Outcome(w) = "raise" ->
                         /\ fit' = tried
                         /\ pc' = "Exception"
                    [] Outcome(w) = "retry" ->
                         /\ fit' = [tried EXCEPT !.max_iter = @ + MaxIterIncrement]
                         /\ pc' = "fit_loop"
                    [] OTHER ->
                         /\ fit' = [tried EXCEPT !.fitted = TRUE]
                         /\ pc' = "fit_returned"
    /\ UNCHANGED <<treeVars, forestVars, save>>

(***************************************************************************)
(* fit_models.py: save_output                                              *)
(* A path is the sequence of its pieces; "." and "/" are pieces of their   *)
(* own and no other piece contains either.                                 *)
(***************************************************************************)
Front(q) == SubSeq(q, 1, Len(q) - 1)

\* file_path.split("."): the pieces between the dots
Split(path) ==
    LET dots == {k \in 1 .. Len(path) : path[k] = "."}
        dot(j) == CHOOSE k \in dots : Cardinality({m \in dots : m <= k}) = j
        n == Cardinality(dots)
    IN  [j \in 1 .. n + 1 |->
            SubSeq(path,
                   IF j = 1 THEN 1 ELSE dot(j - 1) + 1,
                   IF j = n + 1 THEN Len(path) ELSE dot(j) - 1)]

\* "".join(parts)
RECURSIVE Join(_)
Join(parts) ==
    IF parts = <<>> THEN <<>> ELSE Join(Front(parts)) \o parts[Len(parts)]

Digits == <<"0", "1", "2", "3", "4", "5", "6", "7", "8", "9">>

\* str(i) of a non-negative integer
RECURSIVE Str(_)
Str(i) ==
    IF i < 10 THEN <<Digits[i + 1]>>
    ELSE Append(Str(i \div 10), Digits[(i % 10) + 1])

\* lines 324-325: the next candidate
RenamedPath(file_path, i) ==
    LET split_path == Split(file_path)
    IN  Join(Front(split_path)) \o (<<"(">> \o Str(i) \o <<")">>)
            \o split_path[Len(split_path)]

\* os.path.join(outdir, filename)
PathJoin(outdir, filename) == outdir \o <<"/">> \o filename

\* main, lines 431-435
OutDir(model_type) == <<"results", "/", model_type>>

FileName(blosum_inference) ==
    IF blosum_inference
    THEN <<"pmen_results_blosum_inferred_pbp_types", ".", "pkl">>
    ELSE <<"pmen_results_filtered_pbp_types", ".", "pkl">>

\* the k-th candidate of the search that starts at path
RECURSIVE Candidate(_, _)
Candidate(path, k) ==
    IF k = 0 THEN path ELSE RenamedPath(Candidate(path, k - 1), k)

\* the files that can be in the way: any of the first candidates
ExistingFiles(path) == SUBSET {Candidate(path, k) : k \in 0 .. MaxExisting - 1}

\* os.path.isfile
isfile(files, file_path) == file_path \in files

\* the directory part of a path: what precedes its last "/"
RECURSIVE DirName(_)
DirName(path) ==
    IF path = <<>> THEN <<>>
    ELSE IF path[Len(path)] = "/" THEN Front(path)
    ELSE DirName(Front(path))

\* the directories on disk: outdir (lines 317-318) and those of the files
isdir(sv, dir) == dir = sv.outdir \/ \E f \in sv.files : DirName(f) = dir

\* main line 436 and lines 316-322: the call, on any files already there
SaveStart ==
    /\ pc = "fit_returned"
    /\ \E blosum_inference \in BOOLEAN :
          LET outdir == OutDir(fit.model_type)
              file_path == PathJoin(outdir, FileName(blosum_inference))
          IN  \E files \in ExistingFiles(file_path) :
                 save' = [outdir |-> outdir, files |-> files, file_path |-> file_path,
                          i |-> 1, checked |-> <<>>, written |-> <<>>]
    /\ pc' = "save_loop"
    /\ UNCHANGED <<treeVars, forestVars, fit>>

\* mutant of SaveLoop: the renamed path is written without being checked
SaveLoopWithoutRecheck ==
    /\ pc = "save_loop"
    /\ isfile(save.files, save.file_path)
    /\ LET renamed == RenamedPath(save.file_path, save.i)
       IN  save' = [save EXCEPT !.file_path = renamed,
                                !.i = @ + 1,
                                !.checked = Append(@, <<save.file_path, TRUE>>),
                                !.written = renamed]
    /\ pc' = "saved"
    /\ UNCHANGED <<treeVars, forestVars, fit>>

\* lines 323-326: one iteration of the while loop
SaveLoop ==
    /\ pc = "save_loop"
    /\ isfile(save.files, save.file_path)
    /\ save' = [save EXCEPT !.file_path = RenamedPath(save.file_path, save.i),
                            !.i = @ + 1,
                            !.checked = Append(@, <<save.file_path, TRUE>>)]
    /\ pc' = "save_loop"
    /\ UNCHANGED <<treeVars, forestVars, fit>>

\* lines 328-329, reached when no file is at file_path
SaveOpen ==
    /\ pc = "save_loop"
    /\ ~isfile(save.files, save.file_path)
    /\ IF isdir(save, DirName(save.file_path))
       THEN /\ save' = [save EXCEPT !.checked = Append(@, <<save.file_path, FALSE>>),
                                    !.written = save.file_path]
            /\ pc' = "saved"
       ELSE \* open raises: the directory of file_path does not exist
            /\ save' = [save EXCEPT !.checked = Append(@, <<save.file_path, FALSE>>)]
            /\ pc' = "FileNotFoundError"
    /\ UNCHANGED <<treeVars, forestVars, fit>>

InitFit ==
    /\ fit \in {[NoFit EXCEPT !.model_type = m] : m \in ModelTypes}
    /\ save = NoSave
    /\ estimators = <<>>
    /\ multiple_test_correction = TRUE
    /\ asked = 0
    /\ ForestUnset
    /\ TreeIdle
    /\ pc = "fit"

NextFit ==
    \/ FitStart
    \/ FitAttempt
    \/ SaveStart
    \/ SaveLoop
    \/ SaveOpen

\* the loop of save_output runs on: a started search takes its next step
SpecFit == InitFit /\ [][NextFit]_vars /\ WF_vars(SaveLoop) /\ WF_vars(SaveOpen)

(***************************************************************************)
(* Properties of one tree                                                  *)
(***************************************************************************)
Constructed == pc \in {"built", "called"}

\* the features the split nodes of the arrays t test
SplitFeatures(t) == {t.feature[v] : v \in SplitsOf(t)}

\* the proper descendants of node v in the arrays t
RECURSIVE Descendants(_, _)
Descendants(t, v) ==
    IF IsLeafOf(t, v) THEN {}
    ELSE {t.children_left[v], t.children_right[v]}
            \cup Descendants(t, t.children_left[v])
            \cup Descendants(t, t.children_right[v])

FirstNode(t, f) == Min({v \in SplitsOf(t) : t.feature[v] = f})

\* some node splitting on b lies strictly below the first node splitting on a
SplitBelowFirst(t, a, b) ==
    \E m \in Descendants(t, FirstNode(t, a)) : ~IsLeafOf(t, m) /\ t.feature[m] = b

Called(op) == pc = "called" /\ ret.op = op

\* C2 (as claimed): on a well-formed tree with a # b both split features,
\* linked_features is true iff some split on b lies strictly below the first
\* split on a, or some split on a strictly below the first split on b.
C2_LinkedIffSomeSplitBelow ==
    (Called("linked_features") /\ ~malformed
        /\ ret.arg[1] # ret.arg[2]
        /\ ret.arg[1] \in SplitFeatures(dt) /\ ret.arg[2] \in SplitFeatures(dt))
    => /\ ret.status = "return"
       /\ ret.value = (SplitBelowFirst(dt, ret.arg[1], ret.arg[2])
                        \/ SplitBelowFirst(dt, ret.arg[2], ret.arg[1]))

\* C3: linked_features(T, (a, b)) and linked_features(T, (b, a)) return the
\* same boolean, for every tree built from well-formed arrays and every pair.
C3_LinkageSymmetric ==
    (Called("linked_features") /\ ~malformed)
    => LET swapped == linked_features(self, <<ret.arg[2], ret.arg[1]>>)
       IN  /\ ret.status = "return"
           /\ swapped.status = "return"
           /\ swapped.value = ret.value

\* C3 witness: a pair found linked only by the search from the second feature
C3_Witness ==
    /\ Called("linked_features") /\ ~malformed
    /\ ret.value = TRUE
    /\ ret.arg[1] # ret.arg[2]
    /\ traverse_tree(self, get_feature_first_node_id(self, ret.arg[1]).value,
                     get_feature_first_node_id(self, ret.arg[2]).value) = "F"

\* C4: after construction from the arrays of a tree, every id in
\* [0, node_count) is either marked leaf or a key of self.tree, never both;
\* node_count = marked ids + keys; split ids are keys and leaf ids are not.
C4_LeafOrKey ==
    (Constructed /\ ~malformed)
    => LET n == dt.node_count
           marked == {i \in Ids(n) : self.leaf_idx[i]}
           keys == DOMAIN self.tree
       IN  /\ keys \subseteq Ids(n)
           /\ \A i \in Ids(n) : (i \in marked) # (i \in keys)
           /\ n = Cardinality(marked) + Cardinality(keys)
           /\ keys = SplitsOf(dt)
           /\ marked = LeavesOf(dt)

\* C4 witness: a constructed tree with several split nodes and leaves
C4_Witness ==
    /\ pc = "built" /\ ~malformed
    /\ Cardinality(DOMAIN self.tree) >= 3
    /\ Cardinality({i \in Ids(dt.node_count) : self.leaf_idx[i]}) >= 4

\* C5 (as claimed): arrays in which a reachable split node has a child index
\* outside [0, node_count) never yield a constructed tree.
C5_MalformedNeverBuilt ==
    malformed => ~Constructed

\* C6: for a feature in internal_node_features of a tree built from
\* well-formed arrays, get_feature_first_node_id returns a split node id n
\* with features[n] equal to the argument, and no smaller id has that feature.
C6_FirstNodeIsSmallestSplit ==
    (Called("get_feature_first_node_id") /\ ~malformed
        /\ InArray(ret.arg[1], self.internal_node_features))
    => /\ ret.status = "return"
       /\ ret.value \in DOMAIN self.tree
       /\ ~self.leaf_idx[ret.value]
       /\ self.features[ret.value] = ret.arg[1]
       /\ \A m \in Ids(self.n_nodes) : m < ret.value => self.features[m] # ret.arg[1]

\* C6 witness: the feature splits two nodes and the first is not the root
C6_Witness ==
    /\ Called("get_feature_first_node_id") /\ ~malformed
    /\ ret.status = "return"
    /\ ret.value > 0
    /\ Cardinality(WhereFeature(self, ret.arg[1])) >= 2
    /\ InArray(ret.arg[1], self.internal_node_features)

\* C7 (as claimed): for every argument that is not the split feature of any
\* internal node, the leaf sentinel included, get_feature_first_node_id fails
\* with ValueError; it never returns a leaf node id.
C7_NotFoundForNonSplitFeature ==
    (Called("get_feature_first_node_id") /\ ~malformed)
    => /\ (ret.arg[1] \notin SplitFeatures(dt)) => ret.status = "ValueError"
       /\ (ret.status = "return") => ~self.leaf_idx[ret.value]

\* C20: on a tree built from well-formed arrays, linked_features returns
\* false without raising whenever a feature of the pair is not the split
\* feature of any internal node; on the three-node tree whose root splits on
\* 5, internal_node_features is [5] and no pair (5, x), x # 5, is linked.
C20_NotLinkedWhenFeatureUnused ==
    /\ (Called("linked_features") /\ ~malformed
          /\ (ret.arg[1] \notin SplitFeatures(dt) \/ ret.arg[2] \notin SplitFeatures(dt)))
         => (ret.status = "return" /\ ret.value = FALSE)
    /\ (Constructed /\ dt = ThreeNodeTree)
         => /\ self.internal_node_features = <<5>>
            /\ \A x \in QueryFeatures \ {5} :
                  /\ linked_features(self, <<5, x>>) = [status |-> "return", value |-> FALSE]
                  /\ linked_features(self, <<x, 5>>) = [status |-> "return", value |-> FALSE]

\* C20 witness: the pair (5, 3) was asked of the three-node tree and found
\* not linked
C20_Witness ==
    /\ Called("linked_features")
    /\ dt = ThreeNodeTree
    /\ ret.arg = <<5, 3>>
    /\ ret.status = "return" /\ ret.value = FALSE

(***************************************************************************)
(* Properties of the two testers                                           *)
(***************************************************************************)
PsfReturned == pc \in {"psf_returned", "sa_returned"}

\* f is a split feature of tree t of the forest
Uses(t, f) == f \in ArrayValues(trees[t].internal_node_features)

CountTrees(P(_)) == Cardinality({t \in 1 .. Len(trees) : P(t)})

PInUnit(p) == p[2] > 0 /\ 0 <= p[1] /\ p[1] <= p[2]

\* min(1, raw * n) as a rational
TimesCapped(raw, n) == IF raw[1] * n >= raw[2] THEN POne ELSE <<raw[1] * n, raw[2]>>

Ascending(lst) == \A j \in 1 .. Len(lst) - 1 : PLeq(lst[j][2], lst[j + 1][2])

\* C1 (as claimed): for every pair whose task has run, the table given to the
\* Fisher test is [[both, f1 only], [f2 only, neither]] counted over the trees
\* by membership of f1 and f2 in internal_node_features.
C1_TableCountsTrees ==
    \A i \in 1 .. Len(futures) :
        futures[i].done
        => LET f1 == feature_pairs[i][1]
               f2 == feature_pairs[i][2]
           IN  futures[i].table =
                 <<CountTrees(LAMBDA t : Uses(t, f1) /\ Uses(t, f2)),
                   CountTrees(LAMBDA t : Uses(t, f1) /\ ~Uses(t, f2)),
                   CountTrees(LAMBDA t : ~Uses(t, f1) /\ Uses(t, f2)),
                   CountTrees(LAMBDA t : ~Uses(t, f1) /\ ~Uses(t, f2))>>

\* C8 (as claimed): bonferroni_correction on a batch of n results returns a
\* list of the same length whose i-th entry has the i-th input key and the
\* value min(1, raw_i * n).
C8_BonferroniExact ==
    bonf.called
    => /\ bonf.status = "return"
       /\ Len(bonf.output) = Len(bonf.input)
       /\ \A i \in 1 .. Len(bonf.input) :
             /\ bonf.output[i][1] = bonf.input[i][1]
             /\ PEq(bonf.output[i][2], TimesCapped(bonf.input[i][2], Len(bonf.input)))

\* the formula of C8 on the batches that are not empty
BonferroniExactOnNonEmpty ==
    (bonf.called /\ Len(bonf.input) > 0)
    => /\ bonf.status = "return"
       /\ Len(bonf.output) = Len(bonf.input)
       /\ \A i \in 1 .. Len(bonf.input) :
             /\ bonf.output[i][1] = bonf.input[i][1]
             /\ PEq(bonf.output[i][2], TimesCapped(bonf.input[i][2], Len(bonf.input)))

\* the raw p-values of the results with key fp in a list of <<key, p>>
RawOf(raw, fp) == {raw[i][2] : i \in {k \in 1 .. Len(raw) : raw[k][1] = fp}}

\* every corrected entry has a raw entry of its key, and each raw value of
\* that key in [0, 1] is not above the corrected value, which is in [0, 1]
CorrectedBounds(corrected, raw) ==
    \A j \in 1 .. Len(corrected) :
        /\ RawOf(raw, corrected[j][1]) # {}
        /\ \A r \in RawOf(raw, corrected[j][1]) :
              PInUnit(r) => (PInUnit(corrected[j][2]) /\ PLeq(r, corrected[j][2]))

\* C9: with correction enabled, every result returned by
\* paired_selection_frequency or split_asymmetry has a corrected p-value in
\* [0, 1] that is not smaller than the raw p-value of the same pair.
C9_CorrectedInUnitAndNotBelowRaw ==
    multiple_test_correction
    => /\ PsfReturned => CorrectedBounds(paired_sf_p_values, fisher_test_p_values)
       /\ (pc = "sa_returned" /\ Len(split_asymmetry_p_values) > 0)
            => CorrectedBounds(split_asymmetry_p_values, bonf.input)

\* C9 witness: a returned batch of two in which a raw value was doubled to a
\* corrected value below 1 and another was capped
C9_Witness ==
    /\ pc = "psf_returned" /\ multiple_test_correction
    /\ Len(paired_sf_p_values) = 2
    /\ \E j \in 1 .. 2 : \E r \in RawOf(fisher_test_p_values, paired_sf_p_values[j][1]) :
          /\ ~PLeq(paired_sf_p_values[j][2], r)
          /\ ~PEq(paired_sf_p_values[j][2], POne)
    /\ \E j \in 1 .. 2 : \E r \in RawOf(fisher_test_p_values, paired_sf_p_values[j][1]) :
          PEq(paired_sf_p_values[j][2], POne) /\ r[1] * 2 > r[2]

\* C10: the lists returned by paired_selection_frequency and split_asymmetry
\* are ascending by reported p-value, with or without correction.
C10_ReturnedAscending ==
    /\ PsfReturned => Ascending(paired_sf_p_values)
    /\ pc = "sa_returned" => Ascending(split_asymmetry_p_values)

\* C10 witness: the gathered results were in descending order of p-value and
\* the returned list holds them ascending
C10_Witness ==
    /\ pc = "psf_returned"
    /\ Len(fisher_test_p_values) = 2
    /\ ~PLeq(fisher_test_p_values[1][2], fisher_test_p_values[2][2])
    /\ ~PLeq(paired_sf_p_values[2][2], paired_sf_p_values[1][2])

\* the position of pair fp in a list of pairs
PairIndex(pairs, fp) == CHOOSE i \in 1 .. Len(pairs) : pairs[i] = fp

\* results of equal p-value stand in the order their pairs have in pairs
TiesInOrderOf(lst, pairs) ==
    \A j \in 1 .. Len(lst) : \A k \in 1 .. Len(lst) :
        (j < k /\ PEq(lst[j][2], lst[k][2]))
        => PairIndex(pairs, lst[j][1]) < PairIndex(pairs, lst[k][1])

\* C11: the final sort is stable: results of equal reported p-value keep the
\* relative order of their pairs in the list of candidate pairs (for
\* split_asymmetry, in the linked-features mapping).
C11_SortStable ==
    /\ PsfReturned => TiesInOrderOf(paired_sf_p_values, feature_pairs)
    /\ pc = "sa_returned"
         => TiesInOrderOf(split_asymmetry_p_values,
                          [k \in 1 .. Len(linked_trees) |-> linked_trees[k][1]])

\* C11 witness: two results were returned with the same reported p-value
C11_Witness ==
    /\ pc = "psf_returned"
    /\ Len(paired_sf_p_values) = 2
    /\ PEq(paired_sf_p_values[1][2], paired_sf_p_values[2][2])
    /\ paired_sf_p_values[1][1] = feature_pairs[1]
    /\ paired_sf_p_values[2][1] = feature_pairs[2]

\* what paired_selection_frequency returns when the tasks are run one after
\* another in the order of the candidate pairs
SequentialOutput ==
    LET df == FeatureTreeMatches(trees, included_features)
        raw == [i \in 1 .. Len(feature_pairs) |->
                    paired_selection_frequency_(feature_pairs[i], df)]
    IN  SortByPValue(IF multiple_test_correction
                     THEN bonferroni_correction(raw).value
                     ELSE raw)

\* C12: for a fixed forest and list of candidate pairs, the ordered output of
\* paired_selection_frequency is the same under every interleaving and
\* completion order of the per-pair tasks: it is that of the sequential run.
C12_OutputIndependentOfSchedule ==
    PsfReturned => paired_sf_p_values = SequentialOutput

\* C12 witness: the task of the second pair finished before that of the first
\* and the two results tie, so only the order of the gather decides the output
C12_Witness ==
    /\ pc = "psf_returned"
    /\ Len(futures) = 2
    /\ futures[2].order = 1 /\ futures[1].order = 2
    /\ PEq(paired_sf_p_values[1][2], paired_sf_p_values[2][2])
    /\ paired_sf_p_values[1][1] # paired_sf_p_values[2][1]

\* C13 (as claimed): when the task of one pair fails, the results of the
\* other tasks are still gathered and paired_selection_frequency returns.
C13_FailedTaskDoesNotAbort ==
    (pc \notin {"main", "psf", "tasks"} /\ \E i \in 1 .. Len(futures) : futures[i].failed)
    => /\ PsfReturned
       /\ \A i \in 1 .. Len(futures) :
             futures[i].done
             => \E j \in 1 .. Len(fisher_test_p_values) :
                   fisher_test_p_values[j] = futures[i].result

\* C14: in paired_selection_frequency the correction runs only when every
\* dispatched task has returned its result, and its n is the number of
\* candidate pairs dispatched.
C14_CorrectionAfterAllTasks ==
    (bonf.called /\ pc \in {"psf_returned", "ZeroDivisionError"})
    => /\ Len(futures) = Len(feature_pairs)
       /\ \A i \in 1 .. Len(futures) : futures[i].done
       /\ Len(bonf.input) = Len(feature_pairs)
       /\ \A i \in 1 .. Len(futures) : bonf.input[i] = futures[i].result

\* C14 witness: the correction ran on a batch of two gathered results
C14_Witness ==
    /\ pc = "psf_returned"
    /\ bonf.called /\ bonf.status = "return"
    /\ Len(bonf.input) = 2
    /\ Len(feature_pairs) = 2

(***************************************************************************)
(* Properties of slope extraction                                          *)
(***************************************************************************)
\* the nodes of the arrays d whose feature entry is f
WhereFeatureIn(d, f) == {v \in Ids(d.node_count) : d.feature[v] = f}

\* the split nodes of the arrays d that test feature f
SplitsOn(d, f) == {v \in SplitsOf(d) : d.feature[v] = f}

\* the nodes splitting on fp[2] strictly below child c of the first fp[1] node
SideNodes(d, fp, c) == SplitsOn(d, fp[2]) \cap Descendants(d, c)

LeftChildOfFirst(d, fp) == d.children_left[FirstNode(d, fp[1])]

RightChildOfFirst(d, fp) == d.children_right[FirstNode(d, fp[1])]

\* value(left child) - value(right child) of node v
SlopeAt(d, v) == d.value[d.children_left[v]] - d.value[d.children_right[v]]

\* the structural preconditions of a slope pair
SlopePrecondition(d, fp) ==
    /\ Cardinality(SplitsOn(d, fp[2])) >= 2
    /\ SplitsOn(d, fp[1]) # {}
    /\ ~IsLeafOf(d, LeftChildOfFirst(d, fp))
    /\ ~IsLeafOf(d, RightChildOfFirst(d, fp))
    /\ SideNodes(d, fp, LeftChildOfFirst(d, fp)) # {}
    /\ SideNodes(d, fp, RightChildOfFirst(d, fp)) # {}

\* the calls get_slope(fp, tree) split_asymmetry makes: <<pair, tree index>>
SlopeCalls ==
    UNION {{<<CandidateFps(linked_trees)[k][1], CandidateFps(linked_trees)[k][2][j]>> :
                j \in 1 .. Len(CandidateFps(linked_trees)[k][2])} :
            k \in 1 .. Len(CandidateFps(linked_trees))}

\* every pair with every tree of its linked-tree list: <<pair, tree index>>
LinkedCalls ==
    UNION {{<<linked_trees[k][1], linked_trees[k][2][j]>> :
                j \in 1 .. Len(linked_trees[k][2])} :
            k \in 1 .. Len(linked_trees)}

\* C15 (as claimed): on a tree where f2 splits at least two nodes, both
\* children of the first f1 node are internal and f2 nodes lie below each of
\* them, get_slope returns a slope pair: the slope of the first f2 node on the
\* left and that of the first f2 node on the right.
C15_SlopePairWhenBothSides ==
    pc = "sa_returned"
    => \A c \in SlopeCalls :
          LET fp == c[1]
              d == estimators[c[2]]
              r == get_slope(fp, trees[c[2]])
          IN  SlopePrecondition(d, fp)
              => /\ ~r.none
                 /\ r.slopes[1] = SlopeAt(d, Min(SideNodes(d, fp, LeftChildOfFirst(d, fp))))
                 /\ r.slopes[2] = SlopeAt(d, Min(SideNodes(d, fp, RightChildOfFirst(d, fp))))

\* the pairs of the results of a list
KeysOf(lst) == {lst[j][1] : j \in 1 .. Len(lst)}

\* C16: every pair in the output of split_asymmetry was linked in at least 5
\* trees and yielded a slope pair on at least 5 of them; a pair below either
\* threshold does not appear in the output.
C16_OnlyPairsWithFiveSlopes ==
    pc = "sa_returned"
    => /\ \A fp \in KeysOf(split_asymmetry_p_values) :
             \E k \in 1 .. Len(linked_trees) :
                /\ linked_trees[k][1] = fp
                /\ Len(linked_trees[k][2]) >= MinSlopes
                /\ Len(SlopesOf(fp, linked_trees[k][2], trees)) >= MinSlopes
       /\ \A k \in 1 .. Len(linked_trees) :
             (\/ Len(linked_trees[k][2]) < MinSlopes
              \/ Len(SlopesOf(linked_trees[k][1], linked_trees[k][2], trees)) < MinSlopes)
             => linked_trees[k][1] \notin KeysOf(split_asymmetry_p_values)

\* C16 witness: split_asymmetry returned for a pair linked in five trees that
\* left fewer than five slopes, and the pair is not in the output
C16_Witness ==
    /\ pc = "sa_returned"
    /\ \E k \in 1 .. Len(linked_trees) :
          /\ Len(linked_trees[k][2]) >= MinSlopes
          /\ Len(SlopesOf(linked_trees[k][1], linked_trees[k][2], trees)) < MinSlopes
          /\ linked_trees[k][1] \notin KeysOf(split_asymmetry_p_values)

\* the tree does not meet the structural preconditions of a slope pair
NoSlopeCase(d, fp) ==
    \/ Cardinality(WhereFeatureIn(d, fp[2])) < 2
    \/ IsLeafOf(d, LeftChildOfFirst(d, fp))
    \/ IsLeafOf(d, RightChildOfFirst(d, fp))
    \/ SideNodes(d, fp, LeftChildOfFirst(d, fp)) = {}
    \/ SideNodes(d, fp, RightChildOfFirst(d, fp)) = {}

C18_EmptyBatchReturnsEmpty ==
    /\ pc # "ZeroDivisionError"
    /\ (bonf.called /\ Len(bonf.input) = 0)
         => (bonf.status = "return" /\ bonf.output = <<>>)
    /\ (pc \in {"psf_returned", "sa_returned"} /\ Len(feature_pairs) = 0)
         => paired_sf_p_values = <<>>
    /\ (pc = "sa_returned" /\ Len(FpSlopes(linked_trees, trees)) = 0)
         => split_asymmetry_p_values = <<>>

\* C19: valid_feature_pair(f1, f2, A) is true iff f1 # f2 and
\* floor(f1/A) # floor(f2/A); with A = 20 the pair (3, 7) is rejected and
\* (3, 25) accepted; every pair main hands to the testers and every pair
\* simulate_random_interactions collects satisfies it.
C19_PairsAreValid ==
    /\ \A A \in {2, AlphabetSize} : \A f1 \in 0 .. 5, f2 \in 0 .. 5 :
          valid_feature_pair(f1, f2, A) <=> (f1 # f2 /\ (f1 \div A) # (f2 \div A))
    /\ ~valid_feature_pair(3, 7, AlphabetSize)
    /\ valid_feature_pair(3, 25, AlphabetSize)
    /\ \A i \in 1 .. Len(feature_pairs) :
          valid_feature_pair(feature_pairs[i][1], feature_pairs[i][2], AlphabetSize)
    /\ \A i \in 1 .. Len(futures) :
          valid_feature_pair(feature_pairs[i][1], feature_pairs[i][2], AlphabetSize)
    /\ pc = "sim_returned" => Len(feature_pairs) = asked

\* C19 witness: simulate_random_interactions(2) returned two pairs drawn from
\* features among which (3, 7) could have been drawn
C19_Witness ==
    /\ pc = "sim_returned"
    /\ asked = 2
    /\ Len(feature_pairs) = 2
    /\ {3, 7, 25} \subseteq ArrayValues(included_features)
    /\ feature_pairs[1] = <<25, 3>>
    /\ feature_pairs[2] = <<7, 25>>

(***************************************************************************)
(* Further properties of the testers                                       *)
(***************************************************************************)
\* the candidate pairs that pass both counts when slope extraction yields a
\* slope pair on every tree that meets its structural preconditions
Survivors ==
    {linked_trees[k][1] :
        k \in {j \in 1 .. Len(linked_trees) :
                 /\ Len(linked_trees[j][2]) >= MinSlopes
                 /\ Cardinality({m \in 1 .. Len(linked_trees[j][2]) :
                        SlopePrecondition(estimators[linked_trees[j][2][m]],
                                          linked_trees[j][1])}) >= MinSlopes}}

C22_MappingListsLinkedTrees ==
    pc \notin {"main", "sim", "sim_loop", "sim_returned", "IndexError"}
    => /\ Len(linked_trees) = Len(feature_pairs)
       /\ \A k \in 1 .. Len(linked_trees) :
             /\ linked_trees[k][1] = feature_pairs[k]
             /\ ArrayValues(linked_trees[k][2]) =
                  {t \in 1 .. Len(trees) :
                      linked_features(trees[t], feature_pairs[k]).value}
             /\ Len(linked_trees[k][2]) = Cardinality(ArrayValues(linked_trees[k][2]))

\* C22 witness: a pair is linked in one tree of the forest and not in another
C22_Witness ==
    /\ pc = "psf"
    /\ Len(trees) = 3
    /\ \E k \in 1 .. Len(linked_trees) :
          /\ Len(linked_trees[k][2]) = 2
          /\ \E t \in 1 .. Len(trees) :
                ~linked_features(trees[t], linked_trees[k][1]).value

\* C23: after they are built the trees and the presence table never change:
\* no task, linkage query, first-node lookup or slope extraction writes them.
C23_TreesAndTableReadOnly ==
    [][/\ pc # "main" => (trees' = trees /\ estimators' = estimators)
       /\ pc \notin {"main", "psf"} => tree_features_df' = tree_features_df]_vars

\* C23 witness: the task of a pair, the linkage queries and the slope
\* extraction have all run and the table is still the one main built
C23_Witness ==
    /\ pc = "sa_returned"
    /\ Len(futures) >= 1
    /\ \A i \in 1 .. Len(futures) : futures[i].done
    /\ trees = [i \in 1 .. Len(estimators) |-> DecisionTree(estimators[i])]
    /\ SlopeCalls # {}
    /\ tree_features_df = FeatureTreeMatches(trees, included_features)

\* the p-value reported for pair i: that of its own task, corrected if asked
OwnPValue(i) ==
    IF multiple_test_correction
    THEN TimesCapped(fisher_exact_greater(futures[i].table), Len(feature_pairs))
    ELSE fisher_exact_greater(futures[i].table)

\* C27: the list paired_selection_frequency returns has one result per
\* candidate pair: same length, each pair once with its own p-value, no other.
C27_OneResultPerPair ==
    PsfReturned
    => /\ Len(paired_sf_p_values) = Len(feature_pairs)
       /\ KeysOf(paired_sf_p_values) \subseteq ArrayValues(feature_pairs)
       /\ \A i \in 1 .. Len(feature_pairs) :
             /\ Cardinality({j \in 1 .. Len(paired_sf_p_values) :
                               paired_sf_p_values[j][1] = feature_pairs[i]}) = 1
             /\ \A j \in 1 .. Len(paired_sf_p_values) :
                   paired_sf_p_values[j][1] = feature_pairs[i]
                   => PEq(paired_sf_p_values[j][2], OwnPValue(i))

\* C27 witness: two results were returned uncorrected, the second pair first
C27_Witness ==
    /\ pc = "psf_returned"
    /\ ~multiple_test_correction
    /\ Len(feature_pairs) = 2
    /\ paired_sf_p_values[1][1] = feature_pairs[2]
    /\ paired_sf_p_values[2][1] = feature_pairs[1]

\* C28 (as claimed): the four cells of every table given to the Fisher test
\* sum to the number of rows of the presence table, whose cell (t, f) is true
\* iff f is in internal_node_features of tree t.
C28_CellsPartitionTrees ==
    /\ \A i \in 1 .. Len(futures) :
          futures[i].done
          => futures[i].table[1] + futures[i].table[2]
               + futures[i].table[3] + futures[i].table[4] = Len(tree_features_df)
    /\ pc \notin {"main", "psf"}
         => /\ Len(tree_features_df) = Len(trees)
            /\ \A t \in Rows(tree_features_df) : \A f \in DOMAIN tree_features_df[t] :
                  tree_features_df[t][f] = Uses(t, f)

(***************************************************************************)
(* Further properties of the constructor                                   *)
(***************************************************************************)
\* how often f occurs in the array a
CountIn(a, f) == Cardinality({j \in 1 .. Len(a) : a[j] = f})

\* C24 (as claimed): internal_node_features holds each distinct split feature
\* exactly once, however many internal nodes split on it, and never the leaf
\* sentinel.
C24_EachSplitFeatureOnce ==
    (Constructed /\ ~malformed)
    => /\ ArrayValues(self.internal_node_features) = SplitFeatures(dt)
       /\ \A f \in SplitFeatures(dt) : CountIn(self.internal_node_features, f) = 1
       /\ TREE_UNDEFINED \notin ArrayValues(self.internal_node_features)

\* C24 (amended): internal_node_features holds the feature of every node not
\* marked leaf, one entry per such node in id order, duplicates kept; for
\* arrays that encode a tree a feature that splits k nodes occurs k times, the
\* values are the distinct split features and never the leaf sentinel.
C24_OneEntryPerInternalNode ==
    /\ Constructed
         => LET unmarked == SortedSeq({i \in Ids(self.n_nodes) : ~self.leaf_idx[i]})
            IN  self.internal_node_features =
                  [j \in 1 .. Len(unmarked) |-> dt.feature[unmarked[j]]]
    /\ (Constructed /\ ~malformed)
         => LET inf == self.internal_node_features
                order == SortedSeq(SplitsOf(dt))
            IN  /\ inf = [j \in 1 .. Len(order) |-> dt.feature[order[j]]]
                /\ \A f \in SplitFeatures(dt) \cup ArrayValues(inf) :
                      CountIn(inf, f)
                        = Cardinality({v \in SplitsOf(dt) : dt.feature[v] = f})
                /\ ArrayValues(inf) = SplitFeatures(dt)
                /\ TREE_UNDEFINED \notin ArrayValues(inf)

\* C24 witness: one feature splits two nodes, another splits one
C24_Witness ==
    /\ pc = "built" /\ ~malformed
    /\ \E f, g \in SplitFeatures(dt) :
          /\ CountIn(self.internal_node_features, f) = 2
          /\ CountIn(self.internal_node_features, g) = 1

\* C25: every id the constructor has visited is a split node iff its two
\* child entries differ; a split node has children[id] = [left, right] and no
\* leaf mark, a leaf has its leaf mark and no entry in children.
C25_VisitedClassified ==
    \A j \in 1 .. Len(visited) :
        LET id == visited[j]
            left == dt.children_left[Wrap(dt.node_count, id)]
            right == dt.children_right[Wrap(dt.node_count, id)]
        IN  IF left # right
            THEN /\ id \in DOMAIN self.tree
                 /\ self.tree[id] = <<left, right>>
                 /\ ~malformed => ~self.leaf_idx[id]
            ELSE /\ self.leaf_idx[Wrap(dt.node_count, id)]
                 /\ id \notin DOMAIN self.tree

\* C25 witness: the loop is still running and has visited a split node below
\* the root and a leaf
C25_Witness ==
    /\ pc = "ctor" /\ ~malformed
    /\ Len(stack) > 0
    /\ \E j, k \in 1 .. Len(visited) :
          /\ visited[j] # 0
          /\ visited[j] \in DOMAIN self.tree
          /\ self.leaf_idx[visited[k]]

\* every id in [0, node_count) was popped, each exactly once
EveryIdPoppedOnce ==
    /\ Len(visited) = dt.node_count
    /\ ArrayValues(visited) = Ids(dt.node_count)

\* C26: for child arrays that encode a tree rooted at node 0 the traversal of
\* the constructor terminates, with an empty stack, after popping every id in
\* [0, node_count) exactly once.
C26_TraversalTerminates ==
    (pc = "ctor" /\ ~malformed) ~> (pc = "built" /\ stack = <<>> /\ EveryIdPoppedOnce)

\* C26 witness: the constructor has returned on the arrays of a nine-node tree
C26_Witness ==
    /\ pc = "built" /\ ~malformed
    /\ stack = <<>>
    /\ dt.node_count = 9
    /\ EveryIdPoppedOnce

(***************************************************************************)
(* Properties of fit_model and save_output                                 *)
(***************************************************************************)
FitReturned == pc \in {"fit_returned", "save_loop", "saved", "FileNotFoundError"}

\* C29: for lasso and elastic_net the first attempt has max_iter = 100000;
\* after an attempt whose only warning is a ConvergenceWarning max_iter is
\* 100000 higher and its model is not returned; an attempt with more than one
\* warning ends in an exception, not a return.
C29_RetryOnConvergenceWarning ==
    fit.model_type \in FittedWithMaxIter
    => LET a == fit.attempts
       IN  /\ pc = "fit_loop" /\ a = <<>> => fit.max_iter = 100000
           /\ a # <<>> => a[1].max_iter = 100000
           /\ \A k \in 1 .. Len(a) :
                 /\ a[k].w = <<"ConvergenceWarning">>
                      => /\ ~FitReturned \/ fit.reg # a[k]
                         /\ IF k < Len(a)
                            THEN a[k + 1].max_iter = a[k].max_iter + 100000
                            ELSE /\ pc = "fit_loop"
                                 /\ fit.max_iter = a[k].max_iter + 100000
                 /\ Len(a[k].w) > 1 => k = Len(a) /\ pc = "Exception"
                 /\ k < Len(a) => a[k].w = <<"ConvergenceWarning">>
           /\ FitReturned
                => /\ a # <<>>
                   /\ fit.reg = a[Len(a)]
                   /\ Len(fit.reg.w) <= 1
                   /\ fit.reg.w # <<"ConvergenceWarning">>

\* C29 witness: two attempts ended in a ConvergenceWarning and the third,
\* with max_iter = 300000, was returned
C29_Witness ==
    /\ pc = "fit_returned"
    /\ fit.model_type = "lasso"
    /\ Len(fit.attempts) = 3
    /\ fit.attempts[1].w = <<"ConvergenceWarning">>
    /\ fit.attempts[2].w = <<"ConvergenceWarning">>
    /\ fit.reg.max_iter = 300000

\* the path written had no file when it was checked, which was the last check
WrittenWasFree ==
    pc = "saved"
    => /\ save.written \notin save.files
       /\ save.checked # <<>>
       /\ save.checked[Len(save.checked)] = <<save.written, FALSE>>
       /\ \A k \in 1 .. Len(save.checked) - 1 :
             /\ save.checked[k][2]
             /\ save.checked[k][1] \in save.files

\* C30: save_output never overwrites a file: whatever files exist, the path it
\* opens for writing had no file when it was checked, and the search for that
\* path ends.
C30_NeverOverwrites ==
    /\ [](WrittenWasFree /\ (pc = "FileNotFoundError" => save.written = <<>>))
    /\ (pc = "save_loop") ~> (pc \in {"saved", "FileNotFoundError"})

\* C30 witness: a file had the first name and the results went to the renamed
\* path, which was checked and free
C30_Witness ==
    /\ pc = "saved"
    /\ Len(save.checked) = 2
    /\ save.checked[1] = <<PathJoin(save.outdir, FileName(TRUE)), TRUE>>
    /\ save.written = RenamedPath(save.checked[1][1], 1)
    /\ save.written \notin save.files

====
